---- MODULE Spec2Model ----
(***************************************************************************)
(* Model of WebsitePerformanceAnalyzer (src/main.py): the six probes, the  *)
(* aggregator run_complete_analysis, the recommendation engine and the     *)
(* report file it writes.                                                  *)
(*                                                                         *)
(* Python values are tagged records: None, numbers, strings and dicts.     *)
(* A dict whose keys are written in the source is a function on those     *)
(* names; a dict whose keys come from data (resource_types, the issuer    *)
(* and subject of a certificate) is a function on Python values, so that  *)
(* None can be a key.                                                      *)
(* Times in seconds (ttfb, response_time) are held in milliseconds, so the *)
(* float 0.5 of the source is the integer 500.                             *)
(***************************************************************************)
EXTENDS Integers, Sequences, FiniteSets, TLC

VARIABLES
    selenium_available, \* self.selenium_available of the running process
    pc,                 \* position of the process inside main()
    results,            \* the dict run_complete_analysis is assembling
    returned,           \* what run_complete_analysis returned (None before it has)
    raised,             \* the exception that left run_complete_analysis, or "none"
    calls,              \* methods and browser launches invoked by the current run, in order
    log,                \* self.logger.error lines of the current run, in order
    sessions,           \* browser sessions the process launched and has not quit
    clock,              \* the wall clock, in whole seconds
    files,              \* names of the report files on disk
    runs,               \* executions of main() started so far
    written             \* executions that wrote their report file

vars == <<selenium_available, pc, results, returned, raised, calls, log,
          sessions, clock, files, runs, written>>

----------------------------------------------------------------------------
\* Bounds of the model

MaxRuns == 2        \* executions of main() in one behaviour
MaxClock == 1       \* the clock runs from 0 to MaxClock seconds

\* Constants of the program

TTFB_LIMIT_MS == 500       \* 0.5 seconds
FCP_LIMIT_MS == 2000
SLOW_RESOURCE_MS == 1000

----------------------------------------------------------------------------
\* Python values

None == [t |-> "None"]
Num(n) == [t |-> "num", v |-> n]
Str(s) == [t |-> "str", v |-> s]
Dict(f) == [t |-> "dict", v |-> f]
List(s) == [t |-> "list", v |-> s]
EmptyDict == Dict(<<>>)

\* bool(x)
Truthy(x) ==
    CASE x.t = "None" -> FALSE
      [] x.t = "num"  -> x.v # 0
      [] x.t = "str"  -> x.v # ""
      [] x.t = "dict" -> DOMAIN x.v # {}
      [] x.t = "list" -> Len(x.v) # 0

\* d.get(k, default)
Get(d, k, default) == IF k \in DOMAIN d.v THEN d.v[k] ELSE default

\* a > b raises TypeError unless both are numbers
GtRaises(a, b) == a.t # "num" \/ b.t # "num"
Gt(a, b) == a.v > b.v

----------------------------------------------------------------------------
\* What the outside world can answer

URLS == {"https://example.com"}

\* requests.get(url) of measure_ttfb: raises, or response.elapsed in ms
ElapsedMs == {0, TTFB_LIMIT_MS, TTFB_LIMIT_MS + 1}
\* requests.get(url) of measure_response_time: raises, or wall time in ms
WallMs == {TTFB_LIMIT_MS + 100}

\* the peer certificate of check_ssl_security, as ssock.getpeercert() gives
\* it: issuer and subject are tuples of relative distinguished names, each a
\* tuple of (key, value) pairs
Certs ==
    { [issuer   |-> << << <<"countryName", "US">> >>,
                       << <<"organizationName", "Let's Encrypt">> >>,
                       << <<"commonName", "R3">> >> >>,
       notAfter |-> "Dec 31 2027 GMT",
       subject  |-> << << <<"commonName", "example.com">> >> >>] }

\* response.headers of requests.head(url): header name -> value as sent
HeaderValues(name) ==
    IF name = "cache-control" THEN {"", "max-age=60"}
    ELSE IF name = "strict-transport-security" THEN {"", "max-age=31536000"}
    ELSE {"nginx"}
VaryingHeaders == {"cache-control", "strict-transport-security"}
HeaderSets ==
    UNION { [ (S \cup {"server"}) -> {"", "max-age=60", "max-age=31536000", "nginx"} ]
            : S \in SUBSET VaryingHeaders }
ResponseHeaders == { h \in HeaderSets : \A n \in DOMAIN h : h[n] \in HeaderValues(n) }

\* what the browser does: the stage that throws ("none": nothing throws), the
\* paint entries it recorded (name -> startTime in ms), and whether the driver
\* hands a JavaScript undefined back as a missing key or as None
BrowserStages == {"launch", "get", "script", "none"}
PaintEntries ==
    { << >> }
      \cup { ("first-paint" :> 1200) @@ ("first-contentful-paint" :> f)
             : f \in {FCP_LIMIT_MS, FCP_LIMIT_MS + 500} }
UndefinedAs == {"absent", "null"}

\* window.performance.getEntries() in the browser: duration in ms and the
\* initiatorType, "undefined" for an entry that is no resource load
BrowserEntry(duration, initiatorType) ==
    [duration |-> duration, initiatorType |-> initiatorType]
PerformanceEntries ==
    { << >>,
      << BrowserEntry(SLOW_RESOURCE_MS, "script"),
         BrowserEntry(SLOW_RESOURCE_MS + 1, "script"),
         BrowserEntry(SLOW_RESOURCE_MS + 1, "undefined") >> }

\* the HTML document of _analyze_network_basic: its tags, in order
Tag(name, rel) == [name |-> name, rel |-> rel]
Documents ==
    { << >>,
      << Tag("script", ""), Tag("link", "stylesheet"), Tag("link", "icon"),
         Tag("script", ""), Tag("img", ""), Tag("script", ""), Tag("img", "") >> }
PageBytes == {4096}
HtmlResponses ==
    { [ok |-> TRUE, tags |-> d, size |-> n, headers |-> ("content-type" :> "text/html")]
      : d \in Documents, n \in PageBytes }

Failure == [ok |-> FALSE]

----------------------------------------------------------------------------
\* Helpers

\* response.headers.get(name)
HeaderGet(h, name) == IF name \in DOMAIN h THEN Str(h[name]) ELSE None

\* len(soup.find_all(name)) and len(soup.find_all(name, rel=rel))
CountTags(doc, name) == Cardinality({ i \in 1..Len(doc) : doc[i].name = name })
CountTagsRel(doc, name, rel) ==
    Cardinality({ i \in 1..Len(doc) : doc[i].name = name /\ doc[i].rel = rel })

\* what a probe hands back: its return value, the lines it logged, the browser
\* sessions it created and ended, and the calls it made
Outcome(ret, lines, l, q, c) ==
    [ret |-> ret, log |-> lines, launched |-> l, quitted |-> q, calls |-> c]

----------------------------------------------------------------------------
\* The probes.  Each takes what the outside world answered and gives the
\* probe's Outcome.

measure_ttfb(resp) ==
    IF resp.ok
    THEN Outcome(Num(resp.elapsed), <<>>, 0, 0, <<>>)
    ELSE Outcome(None, <<"ERROR Error measuring TTFB">>, 0, 0, <<>>)

measure_response_time(resp) ==
    IF resp.ok
    THEN Outcome(Num(resp.wall), <<>>, 0, 0, <<>>)
    ELSE Outcome(None, <<"ERROR Error measuring response time">>, 0, 0, <<>>)

\* dict(x[0] for x in name): the first (key, value) pair of every relative
\* distinguished name; of two pairs with one key the later one stays
FirstPairsDict(name) ==
    LET keys == { name[i][1][1] : i \in 1..Len(name) }
        Last(k) == CHOOSE i \in 1..Len(name) :
                     /\ name[i][1][1] = k
                     /\ \A j \in 1..Len(name) : name[j][1][1] = k => j <= i
    IN  Dict([key \in { Str(k) : k \in keys } |-> Str(name[Last(key.v)][1][2])])

check_ssl_security(conn) ==
    IF conn.ok /\ {"issuer", "notAfter", "subject"} \subseteq DOMAIN conn.cert
    THEN Outcome(Dict([issuer  |-> FirstPairsDict(conn.cert.issuer),
                       expiry  |-> Str(conn.cert.notAfter),
                       subject |-> FirstPairsDict(conn.cert.subject)]), <<>>, 0, 0, <<>>)
    ELSE Outcome(None, <<"ERROR Error checking SSL">>, 0, 0, <<>>)

check_headers(resp) ==
    IF resp.ok
    THEN Outcome(Dict(
           [server           |-> HeaderGet(resp.headers, "server"),
            content_type     |-> HeaderGet(resp.headers, "content-type"),
            content_length   |-> HeaderGet(resp.headers, "content-length"),
            cache_control    |-> HeaderGet(resp.headers, "cache-control"),
            security_headers |-> Dict(
              [strict_transport_security |-> HeaderGet(resp.headers, "strict-transport-security"),
               x_content_type_options    |-> HeaderGet(resp.headers, "x-content-type-options"),
               x_frame_options           |-> HeaderGet(resp.headers, "x-frame-options"),
               content_security_policy   |-> HeaderGet(resp.headers, "content-security-policy")])]),
           <<>>, 0, 0, <<>>)
    ELSE Outcome(None, <<"ERROR Error checking headers">>, 0, 0, <<>>)

\* the object the script of measure_web_vitals returns, as Python receives it:
\* paint.find(...)?.startTime is undefined when no such entry was recorded
PerformanceMetrics(paint, undefinedAs) ==
    LET Optional(key, name) ==
            IF name \in DOMAIN paint THEN key :> Num(paint[name])
            ELSE IF undefinedAs = "null" THEN key :> None
            ELSE <<>>
    IN  Dict([loadTime |-> Num(1500), domContentLoaded |-> Num(900)]
             @@ Optional("firstPaint", "first-paint")
             @@ Optional("firstContentfulPaint", "first-contentful-paint"))

measure_web_vitals(sel, browser) ==
    IF ~sel
    THEN Outcome(None, <<"INFO Selenium not available, skipping web vitals measurement">>,
                 0, 0, <<>>)
    ELSE IF browser.stage = "launch"
    THEN Outcome(None, <<"ERROR Error measuring web vitals">>, 0, 0, <<"webdriver.Chrome">>)
    ELSE IF browser.stage \in {"get", "script"}
    THEN Outcome(None, <<"ERROR Error measuring web vitals">>, 1, 0, <<"webdriver.Chrome">>)
    ELSE Outcome(PerformanceMetrics(browser.paint, browser.undefinedAs), <<>>, 1, 1,
                 <<"webdriver.Chrome">>)

_analyze_network_basic(resp) ==
    IF resp.ok
    THEN LET scripts == CountTags(resp.tags, "script")
             styles  == CountTagsRel(resp.tags, "link", "stylesheet")
             images  == CountTags(resp.tags, "img")
         IN  Outcome(Dict(
               [total_requests |-> Num(scripts + styles + images + 1),
                resource_types |-> Dict((Str("scripts") :> Num(scripts))
                                        @@ (Str("stylesheets") :> Num(styles))
                                        @@ (Str("images") :> Num(images))),
                page_size      |-> Num(resp.size),
                content_type   |-> HeaderGet(resp.headers, "content-type")]),
               <<>>, 0, 0, <<"_analyze_network_basic">>)
    ELSE Outcome(None, <<"ERROR Error in basic network analysis">>, 0, 0,
                 <<"_analyze_network_basic">>)

\* the list the script of analyze_network_performance returns, as Python
\* receives it: one dict per entry, its initiatorType undefined when the entry
\* has none
PerformanceLogs(entries, undefinedAs) ==
    LET Optional(e) ==
            IF e.initiatorType # "undefined" THEN "initiatorType" :> Str(e.initiatorType)
            ELSE IF undefinedAs = "null" THEN "initiatorType" :> None
            ELSE <<>>
    IN  [i \in 1..Len(entries) |->
           Dict([name |-> Str("https://example.com/r"), entryType |-> Str("resource"),
                 duration |-> Num(entries[i].duration)] @@ Optional(entries[i]))]

\* the analysis dict the rich path builds from the performance entries
RichAnalysis(logs) ==
    LET Slow(entry) == Gt(entry.v["duration"], Num(SLOW_RESOURCE_MS))
        TypeOf(entry) == Get(entry, "initiatorType", Str("other"))
        types == { TypeOf(logs[i]) : i \in 1..Len(logs) }
    IN  Dict([total_requests |-> Num(Len(logs)),
              slow_resources |-> List(SelectSeq(logs, Slow)),
              resource_types |-> Dict(
                [ty \in types |->
                   Num(Cardinality({ i \in 1..Len(logs) : TypeOf(logs[i]) = ty }))])])

\* analyze_network_performance without its selenium_available guard: the
\* browser path is taken in basic mode too
analyze_network_performance_NoModeCheck(sel, browser, resp) ==
    IF browser.stage = "none"
    THEN Outcome(RichAnalysis(PerformanceLogs(browser.entries, browser.undefinedAs)),
                 <<>>, 1, 1, <<"webdriver.Chrome">>)
    ELSE LET basic == _analyze_network_basic(resp)
         IN  Outcome(basic.ret,
                     <<"ERROR Error analyzing network performance">> \o basic.log,
                     IF browser.stage = "launch" THEN 0 ELSE 1, 0,
                     <<"webdriver.Chrome">> \o basic.calls)

\* analyze_network_performance whose except branch returns None as the other
\* probes do, instead of calling the basic path
analyze_network_performance_NoFallback(sel, browser, resp) ==
    IF ~sel
    THEN _analyze_network_basic(resp)
    ELSE IF browser.stage = "none"
    THEN Outcome(RichAnalysis(PerformanceLogs(browser.entries, browser.undefinedAs)),
                 <<>>, 1, 1, <<"webdriver.Chrome">>)
    ELSE Outcome(None, <<"ERROR Error analyzing network performance">>,
                 IF browser.stage = "launch" THEN 0 ELSE 1, 0, <<"webdriver.Chrome">>)

analyze_network_performance(sel, browser, resp) ==
    IF ~sel
    THEN _analyze_network_basic(resp)
    ELSE IF browser.stage = "none"
    THEN Outcome(RichAnalysis(PerformanceLogs(browser.entries, browser.undefinedAs)),
                 <<>>, 1, 1, <<"webdriver.Chrome">>)
    ELSE LET basic == _analyze_network_basic(resp)
         IN  Outcome(basic.ret,
                     <<"ERROR Error analyzing network performance">> \o basic.log,
                     IF browser.stage = "launch" THEN 0 ELSE 1, 0,
                     <<"webdriver.Chrome">> \o basic.calls)

----------------------------------------------------------------------------
\* The recommendation engine

Recommendation(issue, text) == [issue |-> issue, recommendation |-> text]

\* Rule 1 with the boundary included (>= for >)
Rule1_Inclusive(pd) ==
    IF Truthy(Get(pd, "ttfb", Num(0))) /\ pd.v["ttfb"].v >= TTFB_LIMIT_MS
    THEN << Recommendation("High Time to First Byte",
              "Optimize server response time, consider caching or CDN usage") >>
    ELSE << >>

Rule1(pd) ==
    IF Truthy(Get(pd, "ttfb", Num(0))) /\ Gt(pd.v["ttfb"], Num(TTFB_LIMIT_MS))
    THEN << Recommendation("High Time to First Byte",
              "Optimize server response time, consider caching or CDN usage") >>
    ELSE << >>

\* Rule 2 with the test the wrong way round (the "not" dropped)
Rule2_Inverted(pd) ==
    IF Truthy(Get(pd, "ssl_info", None))
    THEN << Recommendation("SSL Certificate Issues",
              "Ensure proper SSL certificate installation and configuration") >>
    ELSE << >>

Rule2(pd) ==
    IF ~Truthy(Get(pd, "ssl_info", None))
    THEN << Recommendation("SSL Certificate Issues",
              "Ensure proper SSL certificate installation and configuration") >>
    ELSE << >>

\* Rules 3 and 4 chained with elif: the HSTS test runs only when cache-control
\* was found
Rules34_Elif(pd) ==
    LET headers == Get(pd, "headers", EmptyDict)
    IN  IF Truthy(headers)
        THEN IF ~Truthy(Get(headers, "cache_control", None))
             THEN << Recommendation("Missing Cache Control",
                       "Implement proper cache control headers") >>
             ELSE IF ~Truthy(Get(Get(headers, "security_headers", EmptyDict),
                                 "strict_transport_security", None))
             THEN << Recommendation("Missing HSTS Header",
                       "Implement HTTP Strict Transport Security") >>
             ELSE << >>
        ELSE << >>

Rules34(pd) ==
    LET headers == Get(pd, "headers", EmptyDict)
    IN  IF Truthy(headers)
        THEN (IF ~Truthy(Get(headers, "cache_control", None))
              THEN << Recommendation("Missing Cache Control",
                        "Implement proper cache control headers") >>
              ELSE << >>)
             \o
             (IF ~Truthy(Get(Get(headers, "security_headers", EmptyDict),
                             "strict_transport_security", None))
              THEN << Recommendation("Missing HSTS Header",
                        "Implement HTTP Strict Transport Security") >>
              ELSE << >>)
        ELSE << >>

Rule5(pd) ==
    LET web_vitals == Get(pd, "web_vitals", EmptyDict)
    IN  IF Truthy(web_vitals)
           /\ Gt(Get(web_vitals, "firstContentfulPaint", Num(0)), Num(FCP_LIMIT_MS))
        THEN << Recommendation("Slow First Contentful Paint",
                  "Optimize critical rendering path, implement lazy loading") >>
        ELSE << >>

\* the comparisons of rules 1 and 5 raise TypeError on a value that is no number
RecommendationsRaise(pd) ==
    \/ Truthy(Get(pd, "ttfb", Num(0))) /\ GtRaises(pd.v["ttfb"], Num(TTFB_LIMIT_MS))
    \/ LET web_vitals == Get(pd, "web_vitals", EmptyDict)
       IN  Truthy(web_vitals)
           /\ GtRaises(Get(web_vitals, "firstContentfulPaint", Num(0)), Num(FCP_LIMIT_MS))

generate_optimization_recommendations(pd) ==
    IF RecommendationsRaise(pd)
    THEN [ok |-> FALSE, exception |-> "TypeError"]
    ELSE [ok |-> TRUE,
          ret |-> List(Rule1(pd) \o Rule2(pd) \o Rules34(pd) \o Rule5(pd))]

----------------------------------------------------------------------------
\* main(): construct the analyzer, then run_complete_analysis, one step per
\* probe it calls

\* d[k] = v
Put(d, k, v) == Dict((k :> v) @@ d.v)

\* datetime.now().isoformat() and int(time.time()), at a clock of whole seconds
IsoFormat(now) == Str(ToString(now))
FileName(now) == "analysis_results_" \o ToString(now) \o ".json"

\* the report keys in the order the dict literal evaluates them, each with the
\* method that computes it
ProbeOrder ==
    << [key |-> "ttfb",          method |-> "measure_ttfb"],
       [key |-> "response_time", method |-> "measure_response_time"],
       [key |-> "ssl_info",      method |-> "check_ssl_security"],
       [key |-> "headers",       method |-> "check_headers"],
       [key |-> "web_vitals",    method |-> "measure_web_vitals"],
       [key |-> "network",       method |-> "analyze_network_performance"] >>

\* where the process goes once entry i of the dict literal is evaluated
AfterProbe(i) == IF i < Len(ProbeOrder) THEN ProbeOrder[i + 1].key ELSE "recommend"

\* a dict literal whose probes let their exception out: a probe that failed
\* ends the run
Probe_AbortOnFailure(i, out) ==
    /\ pc = ProbeOrder[i].key
    /\ results' = Put(results, ProbeOrder[i].key, out.ret)
    /\ log' = log \o out.log
    /\ calls' = Append(calls, ProbeOrder[i].method) \o out.calls
    /\ sessions' = sessions + out.launched - out.quitted
    /\ pc' = IF out.ret.t = "None" THEN "raised" ELSE AfterProbe(i)
    /\ raised' = IF pc' = "raised" THEN "Exception" ELSE raised
    /\ UNCHANGED <<selenium_available, returned, clock, files, runs, written>>

\* entry i of the dict literal: call the probe and keep what it returned
Probe(i, out) ==
    /\ pc = ProbeOrder[i].key
    /\ results' = Put(results, ProbeOrder[i].key, out.ret)
    /\ log' = log \o out.log
    /\ calls' = Append(calls, ProbeOrder[i].method) \o out.calls
    /\ sessions' = sessions + out.launched - out.quitted
    /\ pc' = AfterProbe(i)
    /\ UNCHANGED <<selenium_available, returned, raised, clock, files, runs, written>>

\* a new process: __init__ provisions the browser backend or fails to, then
\* run_complete_analysis logs its start and begins the dict literal
Start ==
    /\ pc \in {"idle", "done", "raised"}
    /\ runs < MaxRuns
    /\ \E provisioned \in BOOLEAN : selenium_available' = provisioned
    /\ \E url \in URLS, now \in clock..MaxClock :
         /\ clock' = now
         /\ results' = Dict([url |-> Str(url), timestamp |-> IsoFormat(now)])
    /\ log' = (IF selenium_available' THEN << >> ELSE <<"WARNING Selenium setup failed">>)
              \o <<"INFO Starting complete analysis">>
    /\ calls' = << >>
    /\ sessions' = 0
    /\ returned' = None
    /\ raised' = "none"
    /\ runs' = runs + 1
    /\ pc' = ProbeOrder[1].key
    /\ UNCHANGED <<files, written>>

MeasureTtfb ==
    /\ pc = "ttfb"
    /\ \E resp \in {Failure} \cup { [ok |-> TRUE, elapsed |-> e] : e \in ElapsedMs } :
           Probe(1, measure_ttfb(resp))

MeasureResponseTime ==
    /\ pc = "response_time"
    /\ \E resp \in {Failure} \cup { [ok |-> TRUE, wall |-> w] : w \in WallMs } :
           Probe(2, measure_response_time(resp))

CheckSslSecurity ==
    /\ pc = "ssl_info"
    /\ \E conn \in {Failure} \cup { [ok |-> TRUE, cert |-> c] : c \in Certs } :
           Probe(3, check_ssl_security(conn))

CheckHeaders ==
    /\ pc = "headers"
    /\ \E resp \in {Failure} \cup { [ok |-> TRUE, headers |-> h] : h \in ResponseHeaders } :
           Probe(4, check_headers(resp))

MeasureWebVitals ==
    /\ pc = "web_vitals"
    /\ \E browser \in { [stage |-> st, paint |-> p, undefinedAs |-> u]
                        : st \in BrowserStages, p \in PaintEntries, u \in UndefinedAs } :
           Probe(5, measure_web_vitals(selenium_available, browser))

AnalyzeNetworkPerformance ==
    /\ pc = "network"
    /\ \E browser \in { [stage |-> st, entries |-> e, undefinedAs |-> u]
                        : st \in BrowserStages, e \in PerformanceEntries,
                          u \in UndefinedAs },
          resp \in {Failure} \cup HtmlResponses :
           Probe(6, analyze_network_performance(selenium_available, browser, resp))

\* the rest of run_complete_analysis: the recommendation engine, the report
\* file, the return.  An exception of the engine leaves the call at once.
Finish ==
    /\ pc = "recommend"
    /\ calls' = Append(calls, "generate_optimization_recommendations")
    /\ LET r == generate_optimization_recommendations(results)
       IN  IF r.ok
           THEN /\ results' = Put(results, "recommendations", r.ret)
                /\ \E now \in clock..MaxClock :
                     /\ clock' = now
                     /\ files' = files \cup {FileName(now)}
                /\ written' = written + 1
                /\ returned' = results'
                /\ pc' = "done"
                /\ raised' = raised
           ELSE /\ pc' = "raised"
                /\ raised' = r.exception
                /\ UNCHANGED <<results, clock, files, written, returned>>
    /\ UNCHANGED <<selenium_available, log, sessions, runs>>

Init ==
    /\ selenium_available = FALSE
    /\ pc = "idle"
    /\ results = EmptyDict
    /\ returned = None
    /\ raised = "none"
    /\ calls = << >>
    /\ log = << >>
    /\ sessions = 0
    /\ clock = 0
    /\ files = {}
    /\ runs = 0
    /\ written = 0

Next ==
    \/ Start
    \/ MeasureTtfb
    \/ MeasureResponseTime
    \/ CheckSslSecurity
    \/ CheckHeaders
    \/ MeasureWebVitals
    \/ AnalyzeNetworkPerformance
    \/ Finish

Spec == Init /\ [][Next]_vars

----------------------------------------------------------------------------
\* Vocabulary of the properties

ReportKeys == {"url", "timestamp", "ttfb", "response_time", "ssl_info", "headers",
               "web_vitals", "network", "recommendations"}
BasicResourceTypes == {Str("scripts"), Str("stylesheets"), Str("images")}

IsNone(x) == x.t = "None"
IsDict(x) == x.t = "dict"
IsNumber(x) == x.t = "num"

\* run_complete_analysis has returned / has ended, by return or by exception
Returned == pc = "done"
Ended == pc \in {"done", "raised"}
\* the network probe of the current run has returned
NetworkProbed == pc \in {"recommend", "done", "raised"}

\* the issues of the recommendations of a report
Issues(report) ==
    LET recs == report.v["recommendations"].v
    IN  { recs[i].issue : i \in 1..Len(recs) }

Logged(line) == \E i \in 1..Len(log) : log[i] = line
Called(method) == \E i \in 1..Len(calls) : calls[i] = method
ProbeMethods == { ProbeOrder[i].method : i \in 1..Len(ProbeOrder) }
IsProbeMethod(m) == m \in ProbeMethods
MethodsUpTo(n) == [i \in 1..n |-> ProbeOrder[i].method]
\* the calls made from the call of method m on
CallsFrom(m) ==
    LET i == CHOOSE j \in 1..Len(calls) : calls[j] = m
    IN  SubSeq(calls, i, Len(calls))

----------------------------------------------------------------------------
\* C1 (as claimed): every run of run_complete_analysis that ends, ends by
\* returning a report whose key set is exactly ReportKeys, whatever the probes
\* did; no exception leaves run_complete_analysis.
C1_AlwaysReturnsFullReport ==
    Ended => /\ raised = "none"
             /\ IsDict(returned)
             /\ DOMAIN returned.v = ReportKeys

\* C2 (as claimed): in basic mode every report has web_vitals = None and a
\* network record of the basic shape.
C2_BasicNetworkAlwaysRecord ==
    (Returned /\ ~selenium_available) =>
        /\ IsNone(returned.v["web_vitals"])
        /\ IsDict(returned.v["network"])
        /\ DOMAIN returned.v["network"].v["resource_types"].v \subseteq BasicResourceTypes

\* C2 (amended): in basic mode every report has web_vitals = None, no browser
\* was launched, and network is either None (the basic fetch failed) or a
\* record of the basic shape, with resource_types keys within
\* {scripts, stylesheets, images}.
C2_BasicModeShape ==
    (Returned /\ ~selenium_available) =>
        /\ IsNone(returned.v["web_vitals"])
        /\ ~Called("webdriver.Chrome")
        /\ LET network == returned.v["network"]
           IN  \/ IsNone(network) /\ Logged("ERROR Error in basic network analysis")
               \/ /\ IsDict(network)
                  /\ DOMAIN network.v =
                       {"total_requests", "resource_types", "page_size", "content_type"}
                  /\ DOMAIN network.v["resource_types"].v \subseteq BasicResourceTypes

C2_Witness ==
    /\ Returned /\ ~selenium_available
    /\ IsDict(returned.v["network"])
    /\ returned.v["network"].v["resource_types"].v[Str("scripts")] = Num(3)
    /\ returned.v["network"].v["total_requests"] = Num(7)

\* C3 (as claimed): in rich mode, once the network probe has returned, the
\* network field is a structured record, never None.
C3_NetworkAlwaysRecord ==
    (NetworkProbed /\ selenium_available) => IsDict(results.v["network"])

\* C3 (amended): in rich mode the network probe launches the browser first;
\* when the browser path fails it calls the basic path instead of returning
\* None itself; network is None exactly when the basic path was called and
\* failed, and is a record with total_requests and resource_types otherwise.
C3_RichFallsBackToBasic ==
    NetworkProbed =>
        LET network == results.v["network"]
            probe == CallsFrom("analyze_network_performance")
            richFailed == Logged("ERROR Error analyzing network performance")
            basicCalled == \E i \in 1..Len(probe) : probe[i] = "_analyze_network_basic"
            basicFailed == Logged("ERROR Error in basic network analysis")
        IN  /\ selenium_available => Len(probe) >= 2 /\ probe[2] = "webdriver.Chrome"
            /\ selenium_available => (richFailed <=> basicCalled)
            /\ basicFailed => basicCalled
            /\ IsNone(network) <=> basicFailed
            /\ ~IsNone(network) =>
                 /\ IsDict(network)
                 /\ {"total_requests", "resource_types"} \subseteq DOMAIN network.v
            /\ (selenium_available /\ richFailed /\ ~basicFailed) =>
                 DOMAIN network.v["resource_types"].v = BasicResourceTypes

C3_Witness ==
    /\ NetworkProbed /\ selenium_available
    /\ Logged("ERROR Error analyzing network performance")
    /\ IsDict(results.v["network"])
    /\ "page_size" \in DOMAIN results.v["network"].v

\* C4 (as claimed): whenever a probe has returned, every browser session the
\* process launched has been quit.
C4_SessionsTornDown == sessions = 0

\* C5 (as claimed): the number of report files on disk equals the number of
\* runs that wrote one.
C5_OneFilePerRun == Cardinality(files) = written

\* C6 (as claimed): the engine always returns its list, and the list has
\* 'Slow First Contentful Paint' exactly when web vitals were collected and
\* firstContentfulPaint is a number above 2000; in particular, with web vitals
\* collected and no first-contentful-paint value the engine returns.
C6_Rule5 ==
    Ended =>
        /\ raised = "none"
        /\ LET web_vitals == returned.v["web_vitals"]
           IN  ("Slow First Contentful Paint" \in Issues(returned)) <=>
                 /\ IsDict(web_vitals)
                 /\ "firstContentfulPaint" \in DOMAIN web_vitals.v
                 /\ IsNumber(web_vitals.v["firstContentfulPaint"])
                 /\ web_vitals.v["firstContentfulPaint"].v > FCP_LIMIT_MS

\* C7 (as claimed): with headers collected, each of the two flags is present
\* exactly when its header value is None; with headers None neither is.
C7_FlagIffNull ==
    Returned =>
        LET headers == returned.v["headers"]
        IN  IF IsNone(headers)
            THEN Issues(returned) \cap {"Missing Cache Control", "Missing HSTS Header"} = {}
            ELSE /\ ("Missing Cache Control" \in Issues(returned))
                      <=> IsNone(headers.v["cache_control"])
                 /\ ("Missing HSTS Header" \in Issues(returned))
                      <=> IsNone(headers.v["security_headers"].v["strict_transport_security"])

\* C7 (amended): with headers collected, 'Missing Cache Control' is present
\* exactly when cache_control is None or the empty string, and 'Missing HSTS
\* Header' exactly when strict_transport_security is None or the empty string,
\* each whatever the other is; with headers None neither is present.
C7_FlagIffNullOrEmpty ==
    Returned =>
        LET headers == returned.v["headers"]
            Missing(x) == IsNone(x) \/ x = Str("")
        IN  IF IsNone(headers)
            THEN Issues(returned) \cap {"Missing Cache Control", "Missing HSTS Header"} = {}
            ELSE /\ ("Missing Cache Control" \in Issues(returned))
                      <=> Missing(headers.v["cache_control"])
                 /\ ("Missing HSTS Header" \in Issues(returned))
                      <=> Missing(headers.v["security_headers"].v["strict_transport_security"])

C7_Witness ==
    /\ Returned
    /\ IsDict(returned.v["headers"])
    /\ IsNone(returned.v["headers"].v["cache_control"])
    /\ IsNone(returned.v["headers"].v["security_headers"].v["strict_transport_security"])
    /\ Issues(returned) \cap {"Missing Cache Control", "Missing HSTS Header"}
         = {"Missing Cache Control", "Missing HSTS Header"}

\* C8: a report has 'SSL Certificate Issues' exactly when its ssl_info is None.
C8_Rule2 ==
    Returned =>
        (("SSL Certificate Issues" \in Issues(returned)) <=> IsNone(returned.v["ssl_info"]))

C8_Witness ==
    /\ Returned
    /\ IsDict(returned.v["ssl_info"])
    /\ "SSL Certificate Issues" \notin Issues(returned)

\* C9: a report has 'High Time to First Byte' exactly when its ttfb is a number
\* above 0.5 s (so not at 0.5, at 0 or at None), and the engine never fails on
\* the ttfb comparison: when it raises, ttfb is None or a number.
C9_Rule1 ==
    /\ Returned =>
         (("High Time to First Byte" \in Issues(returned)) <=>
            /\ IsNumber(returned.v["ttfb"])
            /\ returned.v["ttfb"].v > TTFB_LIMIT_MS)
    /\ pc = "raised" => (IsNone(results.v["ttfb"]) \/ IsNumber(results.v["ttfb"]))

C9_Witness ==
    /\ Returned
    /\ returned.v["ttfb"] = Num(TTFB_LIMIT_MS)
    /\ "High Time to First Byte" \notin Issues(returned)

\* C10: at every point of a run the probes called so far are exactly the
\* first ones of the fixed order, each once; the run reaches the
\* recommendation engine only with all six called, calls it once and last, and
\* never ends before that, whichever probes failed.
C10_FixedOrder ==
    LET probes == SelectSeq(calls, IsProbeMethod)
        engine == "generate_optimization_recommendations"
    IN  /\ \A i \in 1..Len(ProbeOrder) :
             pc = ProbeOrder[i].key => probes = MethodsUpTo(i - 1) /\ ~Called(engine)
        /\ pc = "recommend" => probes = MethodsUpTo(Len(ProbeOrder)) /\ ~Called(engine)
        /\ Ended =>
             /\ probes = MethodsUpTo(Len(ProbeOrder))
             /\ calls[Len(calls)] = engine
             /\ Cardinality({ i \in 1..Len(calls) : calls[i] = engine }) = 1
             /\ ProbeOrder[1].key \in DOMAIN results.v

C10_Witness ==
    /\ Returned
    /\ \A i \in 1..Len(ProbeOrder) : IsNone(returned.v[ProbeOrder[i].key])
    /\ SelectSeq(calls, IsProbeMethod) = MethodsUpTo(Len(ProbeOrder))

====
